---- MODULE Spec2Model ----
(***************************************************************************)
(* A state-machine model of openpifpaf/network/trainer.py (class Trainer): *)
(* the epoch loop, the per-batch gradient step with stride_apply gradient  *)
(* accumulation, the combined multi-head loss, the EMA shadow with its     *)
(* apply/restore swap, the learning-rate scheduler stepping, the epoch     *)
(* summaries and the checkpoint writes.                                    *)
(*                                                                         *)
(* Conventions.  A Python value that may be None is a sequence of length   *)
(* at most one: None is <<>> and a value x is <<x>>.  The parameters, the *)
(* gradient buffers and the EMA lists are vectors of integers, one entry   *)
(* per parameter.  Lambdas are counted in halves and the EMA decay is a    *)
(* fraction <<num, den>>.                                                  *)
(***************************************************************************)
EXTENDS Integers, Sequences, FiniteSets, Bags, TLC

\* ------------------------------------------------------------------ bounds
MaxStride  == 2   \* stride_apply ranges over 1..MaxStride
MaxBatches == 3   \* a training set holds 0..MaxBatches batches
MaxVal     == 1   \* a validation set holds 0..MaxVal batches
MaxStart   == 5   \* the largest start_epoch a run resumes from
MaxRun     == 2   \* epochs ranges over 0..start_epoch+MaxRun
MaxCalls   == 2   \* direct calls of train, val, write_model and the batch methods
MaxHeads   == 2   \* heads (loss functors, outputs, target groups): 0..MaxHeads
MaxLam     == 3   \* length of the lambda vector: 0..MaxLam

\* ------------------------------------------------------------- optionals
None       == <<>>
Some(x)    == <<x>>
IsNone(o)  == o = <<>>
Val(o)     == o[1]

Min2(a, b) == IF a <= b THEN a ELSE b

\* ------------------------------------------------------------------ state
VARIABLES
  \* Trainer fields set by __init__
  lambdas,            \* self.lambdas: sequence of weights, in halves (1 is 0.5)
  n_losses,           \* len(self.losses): number of loss functors
  stride_apply,       \* self.stride_apply
  ema_decay,          \* self.ema_decay: None or Some(<<num, den>>)
  lr_scheduler,       \* TRUE iff self.lr_scheduler is not None
  dataset,            \* the batches the scenes passed to train and val yield
  ema,                \* self.ema: None or Some(vector)
  ema_restore_params, \* self.ema_restore_params: None or Some(vector)
  \* collaborators
  params,             \* [p.data for p in self.model.parameters()]
  grads,              \* the gradient buffers of the parameters
  training,           \* model mode: TRUE after model.train(), FALSE after eval()
  sched_steps,        \* number of lr_scheduler.step() calls so far
  files,              \* sequence of checkpoints written by torch.save
  \* control: the position inside loop / train / val and their locals
  pc, caller, epochs, start_epoch, epoch, ff_i, batch_idx,
  train_scenes, val_scenes, calls,
  epoch_loss,         \* local of train / val: running sum of the batch losses
  head_epoch_losses,  \* local of train / val: running sums per sub-loss
  \* history
  returned,           \* bag of what the batch calls of the epoch returned
  ev,                 \* what the last step did
  grad_src,           \* the batches whose backward pass is held in grads
  live,               \* the parameters as left by the last optimizer step
  loss_res            \* arguments and result of the last direct loss() call

vars == <<lambdas, n_losses, stride_apply, ema_decay, lr_scheduler, ema,
          ema_restore_params, params, grads, training, sched_steps, files,
          pc, caller, epochs, start_epoch, epoch, ff_i, batch_idx,
          train_scenes, val_scenes, calls, ev, grad_src, live, loss_res,
          dataset, epoch_loss, head_epoch_losses, returned>>

\* --------------------------------------------------------- Trainer.loss
\* Sequences over S of length at most n.
SeqUpTo(S, n) == UNION {[1..k -> S] : k \in 0..n}

RECURSIVE Flatten(_)
Flatten(ss) == IF ss = <<>> THEN <<>> ELSE Head(ss) \o Flatten(Tail(ss))

RECURSIVE SumSeq(_)
SumSeq(s) == IF s = <<>> THEN 0 ELSE Head(s) + SumSeq(Tail(s))

\* l(o, t): a loss functor applied to one head's output and target.  The
\* functor is a collaborator: an output o is modelled by the sub-losses it
\* yields against an annotated target, and a target t is TRUE when it holds
\* annotations; without annotations every sub-loss of the head is None.
HeadLoss(o, t) == IF t THEN o ELSE [j \in DOMAIN o |-> None]

\* zip(self.losses, outputs, targets) stops at the shortest of the three.
ZipLen(nl, outputs, targets) == Min2(nl, Min2(Len(outputs), Len(targets)))

\* The flattening with the None sub-losses left out.
RECURSIVE DropNone(_)
DropNone(hl) ==
  IF hl = <<>> THEN <<>>
  ELSE (IF IsNone(Head(hl)) THEN <<>> ELSE <<Head(hl)>>) \o DropNone(Tail(hl))

HeadLosses_DropNone(nl, outputs, targets) ==
  DropNone(Flatten([i \in 1..ZipLen(nl, outputs, targets) |->
                      HeadLoss(outputs[i], targets[i])]))

\* head_losses = [c for l, o, t in zip(...) for c in l(o, t)]
HeadLosses(nl, outputs, targets) ==
  Flatten([i \in 1..ZipLen(nl, outputs, targets) |->
             HeadLoss(outputs[i], targets[i])])

\* The weights zipped with the sub-losses after None is filtered out.
RECURSIVE LossValues_FilterFirst(_, _)
LossValues_FilterFirst(lams, hl) ==
  LET vs == DropNone(hl) IN
  IF lams = <<>> \/ vs = <<>> THEN <<>>
  ELSE <<Head(lams) * Val(Head(vs))>>
       \o LossValues_FilterFirst(Tail(lams), Tail(vs))

\* loss_values = [lam * l for lam, l in zip(lambdas, head_losses)
\*                if l is not None]
RECURSIVE LossValues(_, _)
LossValues(lams, hl) ==
  IF lams = <<>> \/ hl = <<>> THEN <<>>
  ELSE (IF IsNone(Head(hl)) THEN <<>> ELSE <<Head(lams) * Val(Head(hl))>>)
       \o LossValues(Tail(lams), Tail(hl))

\* The total tested for truth instead of the list: if sum(loss_values).
LossTotal_SumTruthy(lv) == IF SumSeq(lv) # 0 THEN Some(SumSeq(lv)) ELSE None

\* if loss_values: loss = sum(loss_values)   (loss starts as None)
LossTotal(lv) == IF lv # <<>> THEN Some(SumSeq(lv)) ELSE None

\* Trainer.loss(outputs, targets): raised is TRUE when an assert fails.
loss(lams, nl, outputs, targets) ==
  IF nl # Len(outputs)
  THEN [raised |-> TRUE, loss |-> None, head_losses |-> <<>>]
  ELSE LET hl == HeadLosses(nl, outputs, targets) IN
       IF Len(lams) # Len(hl)
       THEN [raised |-> TRUE, loss |-> None, head_losses |-> <<>>]
       ELSE [raised |-> FALSE,
             loss |-> LossTotal(LossValues(lams, hl)),
             head_losses |-> hl]

\* --------------------------------------------------------------- the EMA
\* ema_decay is truthy (line 206): set and not 0.0.
Truthy(d) == ~IsNone(d) /\ Val(d)[1] # 0

\* ema_p.mul_(1.0 - decay).add_(decay, p.data) for one entry, decay = n/m;
\* the arithmetic rounds down to the value grid.
EmaEntry(e, p, d) == (e * (d[2] - d[1]) + d[1] * p) \div d[2]

\* step_ema with the two weights exchanged: decay on the shadow.
step_ema_SwappedWeights(e, p, d) ==
  IF IsNone(e) THEN e
  ELSE Some([i \in DOMAIN p |->
               EmaEntry(p[i], Val(e)[i], Val(d))])

\* Trainer.step_ema: the new self.ema.
step_ema(e, p, d) ==
  IF IsNone(e) THEN e
  ELSE Some([i \in DOMAIN p |-> EmaEntry(Val(e)[i], p[i], Val(d))])

\* apply_ema with the deepcopy left out: the restore buffer holds the
\* parameter tensors themselves, which the copy of the shadow overwrites.
apply_ema_NoDeepcopy(e, p, r) ==
  IF IsNone(e) THEN [params |-> p, restore |-> r]
  ELSE [params |-> Val(e), restore |-> Some(Val(e))]

\* apply_ema that saves the parameters and leaves the shadow out of them.
apply_ema_NoSwap(e, p, r) ==
  IF IsNone(e) THEN [params |-> p, restore |-> r]
  ELSE [params |-> p, restore |-> Some(p)]

\* Trainer.apply_ema: the new parameters and restore buffer.
apply_ema(e, p, r) ==
  IF IsNone(e) THEN [params |-> p, restore |-> r]
  ELSE [params |-> Val(e), restore |-> Some(p)]

\* Trainer.ema_restore: the new parameters and restore buffer.
ema_restore(p, r) ==
  IF IsNone(r) THEN [params |-> p, restore |-> r]
  ELSE [params |-> Val(r), restore |-> None]

\* --------------------------------------------------------- collaborators
\* The model under training: two scalar parameters.
InitParams == <<10, 20>>
ZeroGrads  == [i \in DOMAIN InitParams |-> 0]

\* Head outputs a model can produce, as the sub-losses they yield.
HeadOutputs == { <<>>, <<None>>, <<Some(0)>>,
                 <<Some(2), Some(3)>>, <<None, Some(3)>> }
LambdaVals  == {0, 1, 2}
EmaDecays   == {None, Some(<<0, 1>>), Some(<<1, 4>>)}

\* The batches a dataset yields to a Trainer with one loss functor and two
\* lambdas: annotated, without annotations (every sub-loss None), and one
\* whose output has the wrong number of sub-losses.  grad is what
\* loss.backward() adds to the gradient buffers.
Scenes ==
  { [outputs |-> << <<Some(2), Some(3)>> >>, targets |-> <<TRUE>>,
     grad |-> <<1, 2>>],
    [outputs |-> << <<Some(2), Some(3)>> >>, targets |-> <<FALSE>>,
     grad |-> <<1, 2>>],
    [outputs |-> << <<Some(0)>> >>, targets |-> <<TRUE>>,
     grad |-> <<1, 1>>] }

\* loss.backward(), run only when loss is not None: accumulates.
Backward(g, b, res) ==
  IF IsNone(res.loss) THEN g ELSE [i \in DOMAIN g |-> g[i] + b.grad[i]]

\* optimizer.step(): applies the buffered gradients.
OptimizerStep(p, g) == [i \in DOMAIN p |-> p[i] - g[i]]

\* lr_scheduler.step() if a scheduler is present.
SchedulerStep(n, present) == IF present THEN n + 1 ELSE n

\* The gradients applied on the last batch of each stride.
ApplyGradients_LastOfStride(i, k) == (i + 1) % k = 0

\* apply_gradients = batch_idx % self.stride_apply == 0
ApplyGradients(i, k) == i % k = 0

\* '{:03d}'.format(n): decimal digits, zero-padded to at least 3.
RECURSIVE Digits(_)
Digits(n) == IF n < 10 THEN <<n>> ELSE Digits(n \div 10) \o <<n % 10>>

RECURSIVE PadLeft(_, _)
PadLeft(ds, w) == IF Len(ds) >= w THEN ds ELSE PadLeft(<<0>> \o ds, w)

\* The epoch formatted without padding: '{:d}'.
Format03d_NoPad(n) == Digits(n)

Format03d(n) == PadLeft(Digits(n), 3)

\* The file name write_model saves to: self.out, or self.out with the
\* suffix '.epoch' and the formatted epoch.
Filename(e, final) ==
  IF final THEN <<"out">> ELSE <<"out", ".epoch">> \o Format03d(e)

\* The batches of a dataset in which single sub-losses are None.
EpochScenes ==
  Scenes \cup
  { [outputs |-> << <<Some(2), None>> >>, targets |-> <<TRUE>>,
     grad |-> <<1, 0>>],
    [outputs |-> << <<None, Some(3)>> >>, targets |-> <<TRUE>>,
     grad |-> <<0, 2>>] }

\* train and val outside a call: no running sums, nothing returned.
NoSums ==
  /\ epoch_loss = 0
  /\ head_epoch_losses = <<>>
  /\ returned = EmptyBag

\* lines 174-175 and 224-225: epoch_loss = 0.0 and one 0.0 per lambda.
ZeroSums ==
  /\ epoch_loss' = 0
  /\ head_epoch_losses' = [i \in DOMAIN lambdas |-> 0]
  /\ returned' = EmptyBag

\* The locals of train and val are gone when the call is over.
DropSums ==
  /\ epoch_loss' = 0
  /\ head_epoch_losses' = <<>>
  /\ returned' = EmptyBag

\* lines 184-185: if loss is not None: epoch_loss += loss
AddLoss(el, l) == IF IsNone(l) THEN el ELSE el + Val(l)

\* The per-head accumulation with 'break' in the place of 'continue'.
AddHeadLosses_StopAtNone(hel, hl) ==
  [i \in DOMAIN hel |->
     IF \A j \in 1..i : j \in DOMAIN hl /\ ~IsNone(hl[j])
     THEN hel[i] + Val(hl[i]) ELSE hel[i]]

\* lines 186-189: head_epoch_losses[i] += head_loss unless it is None.
AddHeadLosses(hel, hl) ==
  [i \in DOMAIN hel |->
     IF i \in DOMAIN hl /\ ~IsNone(hl[i])
     THEN hel[i] + Val(hl[i]) ELSE hel[i]]

\* round(x, 5): the number of decimals kept in the epoch summary.
Decimals == 5

RECURSIVE Pow10(_)
Pow10(n) == IF n = 0 THEN 1 ELSE 10 * Pow10(n - 1)

\* round(num / den, Decimals) in units of 10^-Decimals, for num >= 0 and
\* den > 0; num / den is never half-way between two such units for the
\* batch counts of this model.
Round(num, den) == (2 * num * Pow10(Decimals) + den) \div (2 * den)

\* lines 212-218 and 236-242: the epoch record that is logged; epoch_loss
\* is in halves, as the lambdas are.
EpochSummary(el, hel, n) ==
  [loss |-> Round(el, 2 * n),
   head_losses |-> [i \in DOMAIN hel |-> Round(hel[i], n)]]

\* The record of a step: the operation, the batch index, whether it called
\* optimizer.step(), optimizer.zero_grad() and step_ema(), the number of
\* batches held in the gradient buffers when the optimizer stepped, and in
\* pre what the step found or logged: the parameters for apply_ema, the
\* shadow for step_ema, the gradient buffers for the start of train, the
\* returned batch values and the epoch summary for the end of train and val.
Ev(op, idx, step, zero, es, n) ==
  [op |-> op, idx |-> idx, step |-> step, zero |-> zero, ema_step |-> es,
   nacc |-> n, pre |-> <<>>]

EvPre(op, pre) ==
  [op |-> op, idx |-> 0, step |-> FALSE, zero |-> FALSE, ema_step |-> FALSE,
   nacc |-> 0, pre |-> pre]

NoLossRes == [called |-> FALSE, outputs |-> <<>>, targets |-> <<>>,
              raised |-> FALSE, loss |-> None, head_losses |-> <<>>]

\* ------------------------------------------------------------ the actions
cfgVars  == <<lambdas, n_losses, stride_apply, ema_decay, lr_scheduler,
              dataset>>
sumVars  == <<epoch_loss, head_epoch_losses, returned>>
loopVars == <<epochs, start_epoch, ff_i>>

\* Trainer.__init__ (lines 20-34) with a well-formed configuration: one loss
\* functor that yields two sub-losses, lambdas [0.5, 1.0].
Init ==
  /\ lambdas = <<1, 2>>
  /\ n_losses = 1
  /\ stride_apply \in 1..MaxStride
  /\ ema_decay \in EmaDecays
  /\ lr_scheduler \in BOOLEAN
  /\ ema = None
  /\ ema_restore_params = None
  /\ params = InitParams
  /\ grads = ZeroGrads
  /\ training = TRUE
  /\ sched_steps = 0
  /\ files = <<>>
  /\ pc = "idle"
  /\ caller = "top"
  /\ epochs = 0
  /\ start_epoch = 0
  /\ epoch = 0
  /\ ff_i = 0
  /\ batch_idx = 0
  /\ train_scenes = 0
  /\ val_scenes = 0
  /\ calls = 0
  /\ ev = Ev("init", 0, FALSE, FALSE, FALSE, 0)
  /\ grad_src = {}
  /\ live = InitParams
  /\ loss_res = NoLossRes
  /\ dataset = Scenes
  /\ NoSums

\* loop(train_scenes, val_scenes, epochs, start_epoch) is entered.
LoopCall(nt, nv, e, s) ==
  /\ pc = "idle"
  /\ pc' = "loop_ff"
  /\ caller' = "top"
  /\ train_scenes' = nt
  /\ val_scenes' = nv
  /\ epochs' = e
  /\ start_epoch' = s
  /\ ff_i' = 0
  /\ calls' = calls + 1
  /\ ev' = Ev("loop", 0, FALSE, FALSE, FALSE, 0)
  /\ UNCHANGED <<cfgVars, ema, ema_restore_params, params, grads, training,
                 sched_steps, files, epoch, batch_idx, grad_src, live,
                 loss_res,
                 sumVars>>

\* The fast-forward with the scheduler left alone.
loop_ff_NoStep ==
  /\ pc = "loop_ff"
  /\ ff_i < start_epoch
  /\ ff_i' = ff_i + 1
  /\ ev' = Ev("loop_ff", ff_i, FALSE, FALSE, FALSE, 0)
  /\ UNCHANGED <<cfgVars, ema, ema_restore_params, params, grads, training,
                 sched_steps, files, pc, caller, epochs, start_epoch, epoch,
                 batch_idx, train_scenes, val_scenes, calls, grad_src, live,
                 loss_res,
                 sumVars>>

\* lines 86-88, one iteration of: for _ in range(start_epoch)
loop_ff ==
  /\ pc = "loop_ff"
  /\ ff_i < start_epoch
  /\ ff_i' = ff_i + 1
  /\ sched_steps' = SchedulerStep(sched_steps, lr_scheduler)
  /\ ev' = Ev("loop_ff", ff_i, FALSE, FALSE, FALSE, 0)
  /\ UNCHANGED <<cfgVars, ema, ema_restore_params, params, grads, training,
                 files, pc, caller, epochs, start_epoch, epoch, batch_idx,
                 train_scenes, val_scenes, calls, grad_src, live, loss_res,
                 sumVars>>

\* line 90: the fast-forward is over, epoch takes its first value.
loop_ff_done ==
  /\ pc = "loop_ff"
  /\ ff_i >= start_epoch
  /\ pc' = "loop_for"
  /\ epoch' = start_epoch
  /\ ev' = Ev("loop_ff_done", 0, FALSE, FALSE, FALSE, 0)
  /\ UNCHANGED <<cfgVars, ema, ema_restore_params, params, grads, training,
                 sched_steps, files, caller, loopVars, batch_idx,
                 train_scenes, val_scenes, calls, grad_src, live, loss_res,
                 sumVars>>

\* The start of train with the scheduler left alone.
TrainBegin_NoSchedulerStep ==
  /\ training' = TRUE
  /\ params' = ema_restore(params, ema_restore_params).params
  /\ ema_restore_params' = ema_restore(params, ema_restore_params).restore
  /\ ema' = None
  /\ sched_steps' = sched_steps
  /\ grads' = ZeroGrads
  /\ grad_src' = {}
  /\ batch_idx' = 0
  /\ ZeroSums
  /\ pc' = "train_for"
  /\ ev' = [Ev("train_begin", 0, FALSE, TRUE, FALSE, 0) EXCEPT !.pre = grads]

\* The start of train without ema_restore(): a pending swap stays in place.
TrainBegin_NoRestore ==
  /\ training' = TRUE
  /\ UNCHANGED <<params, ema_restore_params>>
  /\ ema' = None
  /\ sched_steps' = SchedulerStep(sched_steps, lr_scheduler)
  /\ grads' = ZeroGrads
  /\ grad_src' = {}
  /\ batch_idx' = 0
  /\ ZeroSums
  /\ pc' = "train_for"
  /\ ev' = [Ev("train_begin", 0, FALSE, TRUE, FALSE, 0) EXCEPT !.pre = grads]

\* The start of train without optimizer.zero_grad().
TrainBegin_NoZeroGrad ==
  /\ training' = TRUE
  /\ params' = ema_restore(params, ema_restore_params).params
  /\ ema_restore_params' = ema_restore(params, ema_restore_params).restore
  /\ ema' = None
  /\ sched_steps' = SchedulerStep(sched_steps, lr_scheduler)
  /\ UNCHANGED <<grads, grad_src>>
  /\ batch_idx' = 0
  /\ ZeroSums
  /\ pc' = "train_for"
  /\ ev' = [Ev("train_begin", 0, FALSE, FALSE, FALSE, 0) EXCEPT !.pre = grads]

\* Trainer.train up to its batch loop (lines 150-177): model.train(),
\* ema_restore(), self.ema = None, lr_scheduler.step(), zero_grad().
TrainBegin ==
  /\ training' = TRUE
  /\ params' = ema_restore(params, ema_restore_params).params
  /\ ema_restore_params' = ema_restore(params, ema_restore_params).restore
  /\ ema' = None
  /\ sched_steps' = SchedulerStep(sched_steps, lr_scheduler)
  /\ grads' = ZeroGrads
  /\ grad_src' = {}
  /\ batch_idx' = 0
  /\ ZeroSums
  /\ pc' = "train_for"
  /\ ev' = [Ev("train_begin", 0, FALSE, TRUE, FALSE, 0) EXCEPT !.pre = grads]

\* lines 90-91: the next epoch calls train, or loop returns.
loop_train ==
  /\ pc = "loop_for"
  /\ epoch < epochs
  /\ caller' = "loop"
  /\ TrainBegin
  /\ UNCHANGED <<cfgVars, files, loopVars, epoch, train_scenes, val_scenes,
                 calls, live, loss_res>>

loop_return ==
  /\ pc = "loop_for"
  /\ epoch >= epochs
  /\ pc' = "idle"
  /\ ev' = Ev("loop_return", 0, FALSE, FALSE, FALSE, 0)
  /\ UNCHANGED <<cfgVars, ema, ema_restore_params, params, grads, training,
                 sched_steps, files, caller, loopVars, epoch, batch_idx,
                 train_scenes, val_scenes, calls, grad_src, live, loss_res,
                 sumVars>>

\* Trainer.train_batch(data, targets, meta, apply_gradients), lines 111-133,
\* on batch b (tagged src) from parameters p, gradient buffers g, shadow e and
\* gradient sources gs: forward and loss, backward if the loss is not None,
\* and if apply: optimizer.step(), optimizer.zero_grad(), step_ema().
train_batch(p, g, e, gs, b, apply, src) ==
  LET res == loss(lambdas, n_losses, b.outputs, b.targets)
      g1  == Backward(g, b, res)
      s1  == gs \cup {<<src[1], src[2], ~IsNone(res.loss)>>}
      p1  == OptimizerStep(p, g1)
  IN IF res.raised
     THEN [raised |-> TRUE, loss |-> None, head_losses |-> <<>>,
           params |-> p, grads |-> g,
           ema |-> e, grad_src |-> gs, nacc |-> 0, step |-> FALSE,
           zero |-> FALSE, ema_step |-> FALSE]
     ELSE IF apply
     THEN [raised |-> FALSE, loss |-> res.loss,
           head_losses |-> res.head_losses, params |-> p1,
           grads |-> ZeroGrads, ema |-> step_ema(e, p1, ema_decay),
           grad_src |-> {}, nacc |-> Cardinality(s1), step |-> TRUE,
           zero |-> TRUE, ema_step |-> TRUE]
     ELSE [raised |-> FALSE, loss |-> res.loss,
           head_losses |-> res.head_losses, params |-> p, grads |-> g1,
           ema |-> e, grad_src |-> s1, nacc |-> Cardinality(s1),
           step |-> FALSE, zero |-> FALSE, ema_step |-> FALSE]

\* The shadow initialised whenever it is unset, whatever ema_decay is.
InitEma_AnyDecay(e, p) == IF IsNone(e) THEN Some(p) ELSE e

\* The shadow initialised from the parameters the batch started with.
InitEma_BeforeStep(e, p) ==
  IF IsNone(e) /\ Truthy(ema_decay) THEN Some(params) ELSE e

\* lines 205-207: initialise the shadow when unset and ema_decay is truthy.
InitEma(e, p) == IF IsNone(e) /\ Truthy(ema_decay) THEN Some(p) ELSE e

\* One iteration of the batch loop of train (lines 178-209).
train_iter ==
  /\ pc = "train_for"
  /\ batch_idx < train_scenes
  /\ \E b \in dataset :
       LET apply == ApplyGradients(batch_idx, stride_apply)
           r == train_batch(params, grads, ema, grad_src, b, apply,
                            <<epoch, batch_idx>>)
       IN IF r.raised
          THEN /\ pc' = "raised"
               /\ ev' = Ev("raised", batch_idx, FALSE, FALSE, FALSE, 0)
               /\ UNCHANGED <<params, live, grads, grad_src, ema, batch_idx,
                              sumVars>>
          ELSE /\ params' = r.params
               /\ live' = IF r.step THEN r.params ELSE live
               /\ grads' = r.grads
               /\ grad_src' = r.grad_src
               /\ ema' = InitEma(r.ema, r.params)
               /\ ev' = Ev("train_batch", batch_idx, r.step, r.zero,
                           r.ema_step, r.nacc)
               /\ epoch_loss' = AddLoss(epoch_loss, r.loss)
               /\ head_epoch_losses' =
                    AddHeadLosses(head_epoch_losses, r.head_losses)
               /\ returned' = returned (+)
                    SetToBag({[loss |-> r.loss,
                               head_losses |-> r.head_losses]})
               /\ batch_idx' = batch_idx + 1
               /\ pc' = pc
  /\ UNCHANGED <<cfgVars, ema_restore_params, training, sched_steps, files,
                 caller, loopVars, epoch, train_scenes, val_scenes, calls,
                 loss_res>>

\* The end of train (lines 211-218): apply_ema(), then the epoch summary,
\* whose division by len(scenes) raises ZeroDivisionError on an empty set.
train_end ==
  /\ pc = "train_for"
  /\ batch_idx >= train_scenes
  /\ params' = apply_ema(ema, params, ema_restore_params).params
  /\ ema_restore_params' = apply_ema(ema, params, ema_restore_params).restore
  /\ pc' = IF train_scenes = 0 THEN "raised"
           ELSE IF caller = "loop" THEN "loop_write" ELSE "idle"
  /\ ev' = IF train_scenes = 0
           THEN Ev("train_end", 0, FALSE, FALSE, FALSE, 0)
           ELSE EvPre("train_end",
                      [returned |-> returned,
                       logged |-> EpochSummary(epoch_loss, head_epoch_losses,
                                               train_scenes)])
  /\ DropSums
  /\ UNCHANGED <<cfgVars, ema, grads, training, sched_steps, files, caller,
                 loopVars, epoch, batch_idx, train_scenes, val_scenes, calls,
                 grad_src, live, loss_res>>

\* Trainer.write_model(epoch, final), lines 244-267: the parameter values
\* are what torch.save stores; moving the model between devices keeps them.
WriteModel(e, final) ==
  files' = Append(files, [filename |-> Filename(e, final), epoch |-> e,
                          model |-> params])

\* line 93: self.write_model(epoch + 1, epoch == epochs - 1)
loop_write ==
  /\ pc = "loop_write"
  /\ WriteModel(epoch + 1, epoch = epochs - 1)
  /\ pc' = "loop_val"
  /\ ev' = Ev("write_model", 0, FALSE, FALSE, FALSE, 0)
  /\ UNCHANGED <<cfgVars, ema, ema_restore_params, params, grads, training,
                 sched_steps, caller, loopVars, epoch, batch_idx,
                 train_scenes, val_scenes, calls, grad_src, live, loss_res,
                 sumVars>>

\* Trainer.val up to its batch loop (lines 220-225): model.eval().
ValBegin ==
  /\ training' = FALSE
  /\ batch_idx' = 0
  /\ ZeroSums
  /\ pc' = "val_for"
  /\ ev' = Ev("val_begin", 0, FALSE, FALSE, FALSE, 0)

\* line 94: self.val(val_scenes, epoch + 1)
loop_val ==
  /\ pc = "loop_val"
  /\ ValBegin
  /\ UNCHANGED <<cfgVars, ema, ema_restore_params, params, grads,
                 sched_steps, files, caller, loopVars, epoch, train_scenes,
                 val_scenes, calls, grad_src, live, loss_res>>

\* Trainer.val_batch(data, targets), lines 135-148: forward and loss under
\* torch.no_grad(); only the raised flag and the loss value come back.
val_batch(b) ==
  LET res == loss(lambdas, n_losses, b.outputs, b.targets)
  IN [raised |-> res.raised, loss |-> res.loss,
      head_losses |-> res.head_losses]

\* One iteration of the batch loop of val (lines 226-233).
val_iter ==
  /\ pc = "val_for"
  /\ batch_idx < val_scenes
  /\ \E b \in dataset :
       IF val_batch(b).raised
       THEN /\ pc' = "raised"
            /\ ev' = Ev("val_raised", batch_idx, FALSE, FALSE, FALSE, 0)
            /\ UNCHANGED <<batch_idx, sumVars>>
       ELSE /\ pc' = pc
            /\ ev' = Ev("val_batch", batch_idx, FALSE, FALSE, FALSE, 0)
            /\ epoch_loss' = AddLoss(epoch_loss, val_batch(b).loss)
            /\ head_epoch_losses' =
                 AddHeadLosses(head_epoch_losses, val_batch(b).head_losses)
            /\ returned' = returned (+)
                 SetToBag({[loss |-> val_batch(b).loss,
                            head_losses |-> val_batch(b).head_losses]})
            /\ batch_idx' = batch_idx + 1
  /\ UNCHANGED <<cfgVars, ema, ema_restore_params, params, grads, training,
                 sched_steps, files, caller, loopVars, epoch, train_scenes,
                 val_scenes, calls, grad_src, live, loss_res>>

\* The end of val with an ema_restore() added to it.
val_end_Restores ==
  /\ pc = "val_for"
  /\ batch_idx >= val_scenes
  /\ params' = ema_restore(params, ema_restore_params).params
  /\ ema_restore_params' = ema_restore(params, ema_restore_params).restore
  /\ pc' = IF val_scenes = 0 THEN "raised"
           ELSE IF caller = "loop" THEN "loop_for" ELSE "idle"
  /\ epoch' = IF val_scenes # 0 /\ caller = "loop" THEN epoch + 1 ELSE epoch
  /\ ev' = IF val_scenes = 0
           THEN Ev("val_end", 0, FALSE, FALSE, FALSE, 0)
           ELSE EvPre("val_end",
                      [returned |-> returned,
                       logged |-> EpochSummary(epoch_loss, head_epoch_losses,
                                               val_scenes)])
  /\ DropSums
  /\ UNCHANGED <<cfgVars, ema, grads, training,
                 sched_steps, files, caller, loopVars, batch_idx,
                 train_scenes, val_scenes, calls, grad_src, live, loss_res>>

\* The end of val (lines 234-242): the epoch summary divides by len(scenes)
\* and raises ZeroDivisionError on an empty set; in loop the next epoch
\* follows (line 90).
val_end ==
  /\ pc = "val_for"
  /\ batch_idx >= val_scenes
  /\ pc' = IF val_scenes = 0 THEN "raised"
           ELSE IF caller = "loop" THEN "loop_for" ELSE "idle"
  /\ epoch' = IF val_scenes # 0 /\ caller = "loop" THEN epoch + 1 ELSE epoch
  /\ ev' = IF val_scenes = 0
           THEN Ev("val_end", 0, FALSE, FALSE, FALSE, 0)
           ELSE EvPre("val_end",
                      [returned |-> returned,
                       logged |-> EpochSummary(epoch_loss, head_epoch_losses,
                                               val_scenes)])
  /\ DropSums
  /\ UNCHANGED <<cfgVars, ema, ema_restore_params, params, grads, training,
                 sched_steps, files, caller, loopVars, batch_idx,
                 train_scenes, val_scenes, calls, grad_src, live, loss_res>>

\* loop is called once on a fresh Trainer.
\* The start_epoch arguments: a fresh run, and runs resumed early and late.
StartEpochs == {0, 1, MaxStart}

loop_call ==
  /\ calls = 0
  /\ \E nt \in 0..MaxBatches, nv \in 0..MaxVal, s \in StartEpochs :
       \E e \in 0..(s + MaxRun) : LoopCall(nt, nv, e, s)

Next ==
  \/ loop_call
  \/ loop_ff
  \/ loop_ff_done
  \/ loop_train
  \/ loop_return
  \/ train_iter
  \/ train_end
  \/ loop_write
  \/ loop_val
  \/ val_iter
  \/ val_end

Spec == Init /\ [][Next]_vars

\* ------------------------------------------- direct calls of the methods
\* The methods of a Trainer called one after another from outside loop: at
\* most MaxCalls calls of train, val, write_model, train_batch and val_batch,
\* and any number of calls of step_ema, apply_ema and ema_restore.
op_train ==
  /\ pc = "idle" /\ calls < MaxCalls
  /\ \E nt \in 0..MaxBatches :
       /\ train_scenes' = nt
       /\ epoch' = calls
       /\ caller' = "top"
       /\ calls' = calls + 1
       /\ TrainBegin
  /\ UNCHANGED <<cfgVars, files, loopVars, val_scenes, live, loss_res>>

op_val ==
  /\ pc = "idle" /\ calls < MaxCalls
  /\ \E nv \in 0..MaxVal :
       /\ val_scenes' = nv
       /\ caller' = "top"
       /\ calls' = calls + 1
       /\ ValBegin
  /\ UNCHANGED <<cfgVars, ema, ema_restore_params, params, grads,
                 sched_steps, files, loopVars, epoch, train_scenes,
                 grad_src, live, loss_res>>

op_write_model ==
  /\ pc = "idle" /\ calls < MaxCalls
  /\ \E final \in BOOLEAN : WriteModel(calls + 1, final)
  /\ calls' = calls + 1
  /\ ev' = Ev("write_model", 0, FALSE, FALSE, FALSE, 0)
  /\ UNCHANGED <<cfgVars, ema, ema_restore_params, params, grads, training,
                 sched_steps, pc, caller, loopVars, epoch, batch_idx,
                 train_scenes, val_scenes, grad_src, live, loss_res,
                 sumVars>>

op_step_ema ==
  /\ pc = "idle"
  /\ ema' = step_ema(ema, params, ema_decay)
  /\ ev' = [Ev("step_ema", 0, FALSE, FALSE, TRUE, 0) EXCEPT !.pre = ema]
  /\ UNCHANGED <<cfgVars, ema_restore_params, params, grads, training,
                 sched_steps, files, pc, caller, loopVars, epoch, batch_idx,
                 train_scenes, val_scenes, calls, grad_src, live, loss_res,
                 sumVars>>

op_apply_ema ==
  /\ pc = "idle"
  /\ params' = apply_ema(ema, params, ema_restore_params).params
  /\ ema_restore_params' = apply_ema(ema, params, ema_restore_params).restore
  /\ ev' = EvPre("apply_ema", params)
  /\ UNCHANGED <<cfgVars, ema, grads, training, sched_steps, files, pc,
                 caller, loopVars, epoch, batch_idx, train_scenes,
                 val_scenes, calls, grad_src, live, loss_res,
                 sumVars>>

op_ema_restore ==
  /\ pc = "idle"
  /\ params' = ema_restore(params, ema_restore_params).params
  /\ ema_restore_params' = ema_restore(params, ema_restore_params).restore
  /\ ev' = IF ev.op = "apply_ema" THEN EvPre("apply_ema_restore", ev.pre)
           ELSE Ev("ema_restore", 0, FALSE, FALSE, FALSE, 0)
  /\ UNCHANGED <<cfgVars, ema, grads, training, sched_steps, files, pc,
                 caller, loopVars, epoch, batch_idx, train_scenes,
                 val_scenes, calls, grad_src, live, loss_res,
                 sumVars>>

op_train_batch ==
  /\ pc = "idle" /\ calls < MaxCalls
  /\ \E b \in dataset, apply \in BOOLEAN :
       LET r == train_batch(params, grads, ema, grad_src, b, apply,
                            <<-1, calls>>)
       IN /\ params' = r.params
          /\ live' = IF r.step THEN r.params ELSE live
          /\ grads' = r.grads
          /\ grad_src' = r.grad_src
          /\ ema' = r.ema
          /\ pc' = IF r.raised THEN "raised" ELSE pc
          /\ ev' = IF r.raised
                   THEN Ev("raised", 0, FALSE, FALSE, FALSE, 0)
                   ELSE Ev("train_batch_direct", 0, r.step, r.zero,
                           r.ema_step, r.nacc)
  /\ calls' = calls + 1
  /\ UNCHANGED <<cfgVars, ema_restore_params, training, sched_steps, files,
                 caller, loopVars, epoch, batch_idx, train_scenes,
                 val_scenes, loss_res,
                 sumVars>>

op_val_batch ==
  /\ pc = "idle" /\ calls < MaxCalls
  /\ \E b \in dataset :
       /\ pc' = IF val_batch(b).raised THEN "raised" ELSE pc
       /\ ev' = IF val_batch(b).raised
                THEN Ev("val_raised", 0, FALSE, FALSE, FALSE, 0)
                ELSE Ev("val_batch", 0, FALSE, FALSE, FALSE, 0)
  /\ calls' = calls + 1
  /\ UNCHANGED <<cfgVars, ema, ema_restore_params, params, grads, training,
                 sched_steps, files, caller, loopVars, epoch, batch_idx,
                 train_scenes, val_scenes, grad_src, live, loss_res,
                 sumVars>>

NextOps ==
  \/ op_train
  \/ op_val
  \/ op_write_model
  \/ op_step_ema
  \/ op_apply_ema
  \/ op_ema_restore
  \/ op_train_batch
  \/ op_val_batch
  \/ train_iter
  \/ train_end
  \/ val_iter
  \/ val_end

OpsSpec == Init /\ [][NextOps]_vars

\* ------------------------------------------------ loss called on its own
\* Trainer.loss on Trainers of every configuration of loss functors and
\* lambdas, on every list of outputs and targets.
LossInit ==
  /\ lambdas \in SeqUpTo(LambdaVals, MaxLam)
  /\ n_losses \in 0..MaxHeads
  /\ stride_apply = 1
  /\ ema_decay = None
  /\ lr_scheduler = FALSE
  /\ ema = None
  /\ ema_restore_params = None
  /\ params = InitParams
  /\ grads = ZeroGrads
  /\ training = TRUE
  /\ sched_steps = 0
  /\ files = <<>>
  /\ pc = "idle"
  /\ caller = "top"
  /\ epochs = 0
  /\ start_epoch = 0
  /\ epoch = 0
  /\ ff_i = 0
  /\ batch_idx = 0
  /\ train_scenes = 0
  /\ val_scenes = 0
  /\ calls = 0
  /\ ev = Ev("init", 0, FALSE, FALSE, FALSE, 0)
  /\ grad_src = {}
  /\ live = InitParams
  /\ loss_res = NoLossRes
  /\ dataset = Scenes
  /\ NoSums

op_loss ==
  /\ pc = "idle"
  /\ ~loss_res.called
  /\ \E outputs \in SeqUpTo(HeadOutputs, MaxHeads),
        targets \in SeqUpTo(BOOLEAN, MaxHeads) :
       LET r == loss(lambdas, n_losses, outputs, targets)
       IN loss_res' = [called |-> TRUE, outputs |-> outputs,
                       targets |-> targets, raised |-> r.raised,
                       loss |-> r.loss, head_losses |-> r.head_losses]
  /\ ev' = Ev("loss", 0, FALSE, FALSE, FALSE, 0)
  /\ UNCHANGED <<cfgVars, ema, ema_restore_params, params, grads, training,
                 sched_steps, files, pc, caller, loopVars, epoch, batch_idx,
                 train_scenes, val_scenes, calls, grad_src, live,
                 sumVars>>

LossNext == op_loss

LossSpec == LossInit /\ [][LossNext]_vars

\* ------------------------------------------ train and val on any dataset
\* A Trainer without EMA and scheduler, whose datasets also yield batches
\* with single sub-losses None; train and val are called directly.
EpochInit ==
  /\ lambdas = <<1, 2>>
  /\ n_losses = 1
  /\ stride_apply \in 1..MaxStride
  /\ ema_decay = None
  /\ lr_scheduler = FALSE
  /\ ema = None
  /\ ema_restore_params = None
  /\ params = InitParams
  /\ grads = ZeroGrads
  /\ training = TRUE
  /\ sched_steps = 0
  /\ files = <<>>
  /\ pc = "idle"
  /\ caller = "top"
  /\ epochs = 0
  /\ start_epoch = 0
  /\ epoch = 0
  /\ ff_i = 0
  /\ batch_idx = 0
  /\ train_scenes = 0
  /\ val_scenes = 0
  /\ calls = 0
  /\ ev = Ev("init", 0, FALSE, FALSE, FALSE, 0)
  /\ grad_src = {}
  /\ live = InitParams
  /\ loss_res = NoLossRes
  /\ dataset = EpochScenes
  /\ NoSums

EpochNext ==
  \/ op_train
  \/ op_val
  \/ train_iter
  \/ train_end
  \/ val_iter
  \/ val_end

EpochSpec == EpochInit /\ [][EpochNext]_vars

\* ------------------------------------------------------------- the claims
\* The first training batch of a loop run is about to execute.
FirstBatchDue ==
  /\ pc = "train_for" /\ caller = "loop"
  /\ epoch = start_epoch /\ batch_idx = 0 /\ batch_idx < train_scenes

\* C1 as stated: with a scheduler, when the first training batch of a loop
\* run resumed at start_epoch = s executes, the scheduler has been stepped
\* exactly s times.
C1_StatedSchedulerAtFirstBatch ==
  (FirstBatchDue /\ lr_scheduler) => sched_steps = start_epoch

\* C1 amended: with a scheduler, the fast-forward of loop has stepped the
\* scheduler exactly s times when the first train call is due, and when the
\* first training batch executes the scheduler has been stepped exactly
\* s + 1 times: the s steps of the fast-forward and the step train takes
\* before its batches.
C1_SchedulerAtFirstBatch ==
  lr_scheduler =>
    /\ (pc = "loop_for" /\ epoch = start_epoch) => sched_steps = start_epoch
    /\ FirstBatchDue => sched_steps = start_epoch + 1

\* C1 witness: a run resumed at start_epoch = 5 reaches its first batch.
C1_Witness ==
  FirstBatchDue /\ lr_scheduler /\ start_epoch = 5 /\ sched_steps = 6

\* C2: with a scheduler, train steps the scheduler once and before its
\* batches (inside the batch loop of epoch e the count is e + 1 at every
\* batch index), and when loop returns with start_epoch <= epochs the
\* scheduler has been stepped exactly epochs times, whatever the number of
\* batches and stride_apply.
C2_SchedulerStepsEqualEpochs ==
  lr_scheduler =>
    /\ (pc = "train_for" /\ caller = "loop") => sched_steps = epoch + 1
    /\ (ev.op = "loop_return" /\ start_epoch <= epochs)
         => sched_steps = epochs

\* C2 witness: loop returns after running two epochs of three batches from
\* start_epoch 1 with stride_apply 2.
C2_Witness ==
  /\ ev.op = "loop_return" /\ lr_scheduler /\ start_epoch = 1
  /\ epochs = 3 /\ epoch = 3 /\ train_scenes = 3 /\ stride_apply = 2
  /\ sched_steps = 3

\* The number of sub-losses of all heads, None ones included.
RECURSIVE SubLossCount(_)
SubLossCount(outputs) ==
  IF outputs = <<>> THEN 0
  ELSE Len(Head(outputs)) + SubLossCount(Tail(outputs))

LensAgree ==
  Len(loss_res.outputs) = n_losses /\ Len(loss_res.targets) = n_losses

AllNone(hl) == \A i \in DOMAIN hl : IsNone(hl[i])

\* C3: when outputs, targets and loss functors agree in number, loss raises
\* if and only if the number of sub-losses of all heads, None ones counted,
\* differs from len(lambdas).
C3_RaisesIffCountMismatch ==
  (loss_res.called /\ LensAgree) =>
    (loss_res.raised <=> SubLossCount(loss_res.outputs) # Len(lambdas))

\* C3 witness: two heads whose three sub-losses, one of them None, match
\* three lambdas, so the call succeeds only because None is counted.
C3_Witness ==
  /\ loss_res.called /\ LensAgree /\ ~loss_res.raised
  /\ n_losses = 2 /\ Len(lambdas) = 3
  /\ \E i \in DOMAIN loss_res.head_losses : IsNone(loss_res.head_losses[i])
  /\ ~AllNone(loss_res.head_losses)

\* C4 as stated: loss raises whenever the numbers of outputs, targets and
\* loss functors are not all equal.
C4_StatedRaisesOnLengthMismatch ==
  (loss_res.called /\ ~LensAgree) => loss_res.raised

\* C5: a call of loss that does not raise returns a None total if and only
\* if every flattened sub-loss is None.
C5_NoneTotalIffAllNone ==
  (loss_res.called /\ ~loss_res.raised) =>
    (IsNone(loss_res.loss) <=> AllNone(loss_res.head_losses))

\* C5 witness: a total that is 0.0 and not None, from a zero lambda on a
\* non-zero sub-loss.
C5_Witness ==
  /\ loss_res.called /\ ~loss_res.raised
  /\ loss_res.loss = Some(0)
  /\ \E i \in DOMAIN lambdas :
       /\ lambdas[i] = 0
       /\ loss_res.head_losses[i] = Some(3)

\* The sum of lambda_i * head_loss_i over the positions in S.
RECURSIVE WeightedSum(_, _, _)
WeightedSum(lams, hl, S) ==
  IF S = {} THEN 0
  ELSE LET i == CHOOSE x \in S : TRUE
       IN lams[i] * Val(hl[i]) + WeightedSum(lams, hl, S \ {i})

\* The number of sub-losses of the heads before head h.
RECURSIVE Offset(_, _)
Offset(outputs, h) ==
  IF h = 1 THEN 0 ELSE Offset(outputs, h - 1) + Len(outputs[h - 1])

\* C6: a call of loss that does not raise and has a sub-loss that is not
\* None returns the sum of lambda_i * head_loss_i over the positions i of
\* the head-order flattening whose sub-loss is not None, and returns the
\* flattening itself: sub-loss j of head h sits at position Offset(h) + j,
\* None where the functor gave None.
C6_TotalIsWeightedSum ==
  (loss_res.called /\ ~loss_res.raised) =>
    LET hl == loss_res.head_losses
        nh == Min2(Len(loss_res.outputs), Len(loss_res.targets))
    IN /\ ~AllNone(hl) =>
            loss_res.loss =
              Some(WeightedSum(lambdas, hl,
                               {i \in DOMAIN hl : ~IsNone(hl[i])}))
       /\ \A h \in 1..nh : \A j \in DOMAIN loss_res.outputs[h] :
            hl[Offset(loss_res.outputs, h) + j] =
              (IF loss_res.targets[h] THEN loss_res.outputs[h][j] ELSE None)

\* C6 witness: one head, sub-losses [2.0, 3.0], lambdas [0.5, 1.0] (1 and 2
\* in halves): the total is 4.0 (8 in halves).
C6_Witness ==
  /\ loss_res.called /\ ~loss_res.raised
  /\ n_losses = 1 /\ lambdas = <<1, 2>>
  /\ loss_res.head_losses = <<Some(2), Some(3)>>
  /\ loss_res.loss = Some(8)

\* C7: apply_ema() followed at once by ema_restore() leaves every parameter
\* at the value it had before apply_ema, and the restore buffer unset, in
\* every state the methods of the Trainer reach.
C7_ApplyRestoreRoundTrip ==
  ev.op = "apply_ema_restore" =>
    params = ev.pre /\ IsNone(ema_restore_params)

\* C7 witness: the pair has run with a shadow that differs from the
\* parameters, so the swap changed them and the restore brought them back.
C7_Witness ==
  /\ ev.op = "apply_ema_restore"
  /\ ~IsNone(ema) /\ Val(ema) # ev.pre
  /\ params = ev.pre

\* C8: in train, batch i calls optimizer.step() and step_ema() if and only
\* if i % stride_apply = 0; the gradient buffers are zeroed once before the
\* batch loop and right after each optimizer step, and in a batch with
\* i % stride_apply # 0 they are kept and hold that batch.
C8_StepIffStrideMultiple ==
  /\ ev.op = "train_batch" =>
       /\ ev.step <=> (ev.idx % stride_apply = 0)
       /\ ev.ema_step <=> (ev.idx % stride_apply = 0)
       /\ ev.zero <=> ev.step
       /\ ev.zero => (grads = ZeroGrads /\ grad_src = {})
       /\ ~ev.zero => \E t \in grad_src : t[1] = epoch /\ t[2] = ev.idx
  /\ ev.op = "train_begin" => (ev.zero /\ ~ev.step /\ grads = ZeroGrads)
  /\ ev.op = "train_end" => (~ev.zero /\ ~ev.step)

\* C8 witness: with stride_apply 2, batch 1 ran without an optimizer step
\* and left its gradient in the buffers.
C8_Witness ==
  /\ ev.op = "train_batch" /\ stride_apply = 2 /\ ev.idx = 1
  /\ ~ev.step /\ ~ev.zero /\ grads # ZeroGrads

\* C9 as stated: every optimizer step of a training epoch applies
\* gradients accumulated over exactly stride_apply batches, the first
\* optimizer step of the epoch included.
C9_StatedStepAppliesStrideBatches ==
  (ev.op = "train_batch" /\ ev.step) => ev.nacc = stride_apply

\* C10: with a truthy ema_decay and a training set that is not empty, when
\* loop writes the checkpoint of an epoch and during the validation batches
\* of that epoch the parameters are the EMA shadow and the restore buffer
\* holds the trained parameters; the checkpoint stores the shadow.
C10_EmaInPlaceForWriteAndVal ==
  (Truthy(ema_decay) /\ caller = "loop" /\ train_scenes > 0) =>
    /\ pc \in {"loop_write", "loop_val", "val_for"} =>
         /\ ~IsNone(ema)
         /\ params = Val(ema)
         /\ ema_restore_params = Some(live)
    /\ pc \in {"loop_val", "val_for"} =>
         files[Len(files)].model = Val(ema)

\* C10 witness: a validation batch is due while the model holds a shadow
\* that differs from the trained parameters.
C10_Witness ==
  /\ Truthy(ema_decay) /\ caller = "loop"
  /\ pc = "val_for" /\ batch_idx < val_scenes
  /\ ~IsNone(ema) /\ params = Val(ema) /\ params # live
  /\ ema_restore_params = Some(live)

\* C11 as stated: every EMA swap is restored afterward, so when loop returns
\* the model holds its trained parameters and the restore buffer is unset.
C11_StatedRestoredAtReturn ==
  ev.op = "loop_return" =>
    (IsNone(ema_restore_params) /\ params = live)

\* The three decimal digits of e, for e below 1000.
ThreeDigits(e) == <<(e \div 100) % 10, (e \div 10) % 10, e % 10>>

\* C12: loop writes one checkpoint per epoch, after train and before val of
\* that epoch: checkpoint i of a run carries epoch number start_epoch + i,
\* and goes to the final path if and only if that is the last epoch, else
\* to the final path with '.epoch' and the three zero-padded digits of the
\* epoch number (7 gives 007); the final path is written once when
\* start_epoch < epochs and never otherwise.
C12_OneCheckpointPerEpoch ==
  LET n == Len(files) IN
  /\ (caller = "loop" /\ pc \in {"train_for", "loop_write"})
       => n = epoch - start_epoch
  /\ pc \in {"loop_val", "val_for"} => n = epoch - start_epoch + 1
  /\ pc = "loop_for" => n = epoch - start_epoch
  /\ \A i \in 1..n :
       /\ files[i].epoch = start_epoch + i
       /\ files[i].filename =
            (IF start_epoch + i = epochs THEN <<"out">>
             ELSE <<"out", ".epoch">> \o ThreeDigits(start_epoch + i))
  /\ ev.op = "loop_return" =>
       Cardinality({i \in 1..n : files[i].filename = <<"out">>})
         = (IF start_epoch < epochs THEN 1 ELSE 0)
  /\ Filename(7, FALSE) = <<"out", ".epoch", 0, 0, 7>>

\* C12 witness: a run from start_epoch 5 to epochs 7 has returned with the
\* checkpoints out.epoch006 and out.
C12_Witness ==
  /\ ev.op = "loop_return" /\ start_epoch = 5 /\ epochs = 7
  /\ Len(files) = 2
  /\ files[1].filename = <<"out", ".epoch", 0, 0, 6>>
  /\ files[2].filename = <<"out">>

\* C16: whenever a training batch is due or running inside loop the restore
\* buffer is unset and the model holds the trained parameters.
C16_TrainsOnLiveParams ==
  (caller = "loop" /\ pc = "train_for") =>
    (IsNone(ema_restore_params) /\ params = live)

\* C16 witness: a batch of the second epoch of a run is due, after the
\* swap of the first epoch put a shadow that differs from the trained
\* parameters into the checkpoint.
C16_Witness ==
  /\ caller = "loop" /\ pc = "train_for" /\ batch_idx < train_scenes
  /\ epoch = start_epoch + 1 /\ Truthy(ema_decay)
  /\ Len(files) = 1 /\ files[1].model # params

\* C19: inside loop the gradient buffers hold gradients of the current
\* epoch only, so no optimizer step applies a gradient of an earlier epoch
\* and a step at batch i covers at most the i + 1 batches of its epoch;
\* train starts with zeroed buffers, whatever the last epoch left in them.
C19_NoGradientAcrossEpochs ==
  /\ (caller = "loop" /\ pc = "train_for") =>
       \A t \in grad_src : t[1] = epoch
  /\ (ev.op = "train_batch" /\ ev.step) => ev.nacc <= ev.idx + 1
  /\ ev.op = "train_begin" => (grads = ZeroGrads /\ grad_src = {})

\* C19 witness: train of the second epoch found gradients left by the
\* trailing batches of the first epoch and zeroed them; the parameters are
\* those of the last optimizer step.
C19_Witness ==
  /\ caller = "loop" /\ ev.op = "train_begin" /\ epoch = start_epoch + 1
  /\ ev.pre # ZeroGrads /\ grads = ZeroGrads /\ params = live

\* C14: a step_ema() call leaves the model parameters alone; with the shadow
\* unset it changes nothing; with the shadow set every new entry is
\* shadow_old*(1-decay) + decay*param, taken down to the value grid.
C14_StepEmaRecurrence ==
  [][ev'.op = "step_ema" =>
       /\ params' = params
       /\ UNCHANGED <<ema_restore_params, grads, sched_steps, live>>
       /\ IsNone(ema) => IsNone(ema')
       /\ ~IsNone(ema) =>
            LET num == Val(ema_decay)[1]
                den == Val(ema_decay)[2]
            IN /\ ~IsNone(ema')
               /\ DOMAIN Val(ema') = DOMAIN params
               /\ \A i \in DOMAIN params :
                    LET mix == Val(ema)[i] * (den - num) + num * params[i]
                    IN /\ den * Val(ema')[i] <= mix
                       /\ mix < den * Val(ema')[i] + den]_vars

\* C14 witness: step_ema() has moved a set shadow, which still differs from
\* the parameters.
C14_Witness ==
  /\ ev.op = "step_ema" /\ ~IsNone(ev.pre) /\ ~IsNone(ema)
  /\ ema # ev.pre /\ Val(ema) # params

\* The direct EMA calls, by the name their step records.
EmaOps == {"step_ema", "apply_ema", "ema_restore", "apply_ema_restore"}

\* C15: with ema_decay unset the shadow and the restore buffer stay unset
\* through any sequence of train, val, train_batch, val_batch, write_model,
\* step_ema, apply_ema and ema_restore calls, an EMA call returns normally,
\* and the parameters are always those of the last optimizer step.
C15_DisabledEmaIsNoOp ==
  IsNone(ema_decay) =>
    /\ IsNone(ema) /\ IsNone(ema_restore_params)
    /\ params = live
    /\ ev.op \in EmaOps => pc = "idle"

\* C15 witness: with ema_decay unset, apply_ema() was called after
\* optimizer steps had changed the parameters.
C15_Witness ==
  /\ IsNone(ema_decay) /\ ev.op = "apply_ema"
  /\ params # InitParams /\ params = ev.pre

\* C17 as stated: with EMA enabled the shadow seeded during the first batch
\* of an epoch holds the values the parameters had before that batch's
\* optimizer step.
C17_StatedSeedIsStartOfEpoch ==
  [][(ev'.op = "train_batch" /\ ev'.idx = 0 /\ Truthy(ema_decay))
       => ema' = Some(params)]_vars

\* C17: with EMA enabled the first batch of an epoch runs its optimizer
\* step and the shadow is then seeded with the parameters that step left.
C17_SeedIsAfterFirstStep ==
  [][(ev'.op = "train_batch" /\ ev'.idx = 0 /\ Truthy(ema_decay))
       => /\ IsNone(ema)
          /\ ev'.step
          /\ live' = params'
          /\ ema' = Some(params')]_vars

\* C17 witness: the first batch of the first epoch of a run has stepped the
\* parameters away from their initial values and seeded the shadow.
C17_Witness ==
  /\ caller = "loop" /\ epoch = start_epoch /\ Truthy(ema_decay)
  /\ ev.op = "train_batch" /\ ev.idx = 0
  /\ params # InitParams /\ ema = Some(params)

\* The steps of val and val_batch, by the name they record.
ValOps == {"val_begin", "val_batch", "val_end", "val_raised"}

\* C18: no step of val or val_batch changes the model parameters, the
\* gradient buffers, the shadow, the restore buffer, what the optimizer
\* last produced or the scheduler step count; a swap in place stays.
C18_ValIsPureRead ==
  [][ev'.op \in ValOps =>
       UNCHANGED <<params, grads, grad_src, ema, ema_restore_params, live,
                   sched_steps>>]_vars

\* C18 witness: val has run to its end on a model with the shadow swapped
\* in, and the swap is still in place.
C18_Witness ==
  /\ ev.op = "val_end" /\ pc = "idle" /\ val_scenes > 0
  /\ ~IsNone(ema_restore_params) /\ ema = Some(params)
  /\ Val(ema_restore_params) # params

\* After a step a set restore buffer comes with a set shadow.
BufferImpliesShadow == ~IsNone(ema_restore_params') => ~IsNone(ema')

\* A step that resets the shadow to unset leaves the restore buffer unset.
ShadowResetAfterRestore ==
  (~IsNone(ema) /\ IsNone(ema')) => IsNone(ema_restore_params')

\* A step that clears or replaces a set restore buffer leaves the saved
\* values in the model.
SavedCopyCopiedBack ==
  (~IsNone(ema_restore_params) /\ ema_restore_params' # ema_restore_params)
    => params' = Val(ema_restore_params)

\* C20 as stated: through any interleaving of train, val, write_model,
\* step_ema, apply_ema and ema_restore a set restore buffer implies a set
\* shadow, the shadow is reset to unset only with the restore buffer
\* cleared, and the saved copy of the trained parameters is never dropped
\* without being copied back into the model.
C20_StatedSavedCopyNeverDropped ==
  [][BufferImpliesShadow /\ ShadowResetAfterRestore
       /\ SavedCopyCopiedBack]_vars

\* The sum of the second components of the pairs of S.
RECURSIVE SumPairs(_)
SumPairs(S) ==
  IF S = {} THEN 0
  ELSE LET x == CHOOSE y \in S : TRUE IN x[2] + SumPairs(S \ {x})

\* The value of an optional number in a sum: nothing for None.
NonNull(o) == IF IsNone(o) THEN 0 ELSE Val(o)

\* The sum of the non-None total losses in the bag ret of returned values.
TotalSum(ret) ==
  SumPairs({<<r, ret[r] * NonNull(r.loss)>> : r \in DOMAIN ret})

\* The sum of the non-None values of sub-loss i in the bag ret.
SubLossSum(ret, i) ==
  SumPairs({<<r, ret[r] * NonNull(r.head_losses[i])>> : r \in DOMAIN ret})

\* The summaries that train and val log, by the name their step records.
EpochEnds == {"train_end", "val_end"}

\* C13 as stated: for a non-empty dataset the reported epoch loss is the
\* sum of the non-None batch losses divided by the number of batches, and
\* each reported sub-loss mean is the sum of its non-None values divided by
\* the number of batches (reported values in units of 10^-5, the total
\* loss in halves).
C13_StatedMeanIsSumOverCount ==
  (ev.op \in EpochEnds /\ pc # "raised") =>
    LET ret == ev.pre.returned
        log == ev.pre.logged
        n   == BagCardinality(ret)
    IN /\ log.loss * 2 * n = TotalSum(ret) * Pow10(Decimals)
       /\ \A i \in DOMAIN lambdas :
            log.head_losses[i] * n = SubLossSum(ret, i) * Pow10(Decimals)

\* x is the multiple of 10^-5 nearest to num / den, given in those units.
Nearest(x, num, den) ==
  /\ 2 * den * x - den <= 2 * num * Pow10(Decimals)
  /\ 2 * num * Pow10(Decimals) < 2 * den * x + den

\* C13: for a non-empty dataset the epoch loss reported by train and by val
\* is the sum of the non-None batch losses divided by the number of all
\* batches, rounded to 5 decimals, and each reported sub-loss mean is the
\* sum of its non-None values divided by the number of all batches, rounded
\* to 5 decimals.
C13_MeanIsRoundedSumOverCount ==
  (ev.op \in EpochEnds /\ pc # "raised") =>
    LET ret == ev.pre.returned
        log == ev.pre.logged
        n   == BagCardinality(ret)
    IN /\ n = (IF ev.op = "train_end" THEN train_scenes ELSE val_scenes)
       /\ n > 0
       /\ Nearest(log.loss, TotalSum(ret), 2 * n)
       /\ DOMAIN log.head_losses = DOMAIN lambdas
       /\ \A i \in DOMAIN lambdas :
            Nearest(log.head_losses[i], SubLossSum(ret, i), n)

\* C13 witness: train has logged the summary of three batches, one with a
\* None loss, one with the first and one with the second sub-loss None;
\* the means 8/6 (the sum is in halves) and 2/3 are no multiples of 10^-5.
C13_Witness ==
  /\ ev.op = "train_end" /\ pc = "idle" /\ train_scenes = 3
  /\ \E r \in DOMAIN ev.pre.returned : IsNone(r.loss)
  /\ \E r \in DOMAIN ev.pre.returned :
       IsNone(r.head_losses[1]) /\ ~IsNone(r.head_losses[2])
  /\ \E r \in DOMAIN ev.pre.returned :
       ~IsNone(r.head_losses[1]) /\ IsNone(r.head_losses[2])
  /\ ev.pre.logged = [loss |-> 133333, head_losses |-> <<66667, 100000>>]

====
